---------------------------- MODULE Spec2Model ----------------------------
(***************************************************************************)
(* td: a single-user task tracker (src/src/cli.rs, src/src/db.rs,          *)
(* src/src/date.rs).  One step of the model is one whole invocation of     *)
(* cli::run: the startup read of the active task followed by the command's *)
(* statements on the tasks table.                                          *)
(*                                                                         *)
(* Option<T> values are sequences: <<>> is None and <<x>> is Some(x).      *)
(***************************************************************************)
EXTENDS Integers, Sequences, FiniteSets, TLC

VARIABLES
    tasks,      \* the tasks table: rowid -> row (db.rs TABLE_DDL)
    assigned,   \* history: the rowids INSERT has assigned so far
    prev,       \* history: the tasks table when the last invocation started
                \* (in SpecRace: when its command started, after its startup read)
    last,       \* history: the last invocation: command, arguments, output
    inflight,   \* SpecRace: per process, the invocation that has made its
                \* startup read and not yet run its command
    drain       \* SpecDrain: history of the next/done loop: whether it has
                \* begun, the tasks Pending then, the ids completed in order

vars == <<tasks, assigned, prev, last, inflight, drain>>

\* the variables the commands of a sequential invocation leave alone
aux == <<inflight, drain>>

-----------------------------------------------------------------------------
(* Bounds of the exploration *)

\* largest rowid explored by Spec: add is not explored once the table holds it
MaxId == 2

\* largest rowid explored by SpecOrder
MaxQueue == 2

-----------------------------------------------------------------------------
(* db.rs: Status and its integer encoding *)

Pending == 0
InProgress == 1
Completed == 2
Cancelled == 3

Status == {Pending, InProgress, Completed, Cancelled}

None == <<>>
Some(x) == <<x>>

-----------------------------------------------------------------------------
(* date.rs *)

\* offset of the local time zone east of UTC, in seconds (a zone without DST
\* transitions at midnight, so .earliest() is always Some)
LocalOffset == 2 * 3600

IsLeap(y) == (y % 4 = 0 /\ y % 100 # 0) \/ y % 400 = 0

DaysInMonth(y, m) ==
    CASE m \in {1, 3, 5, 7, 8, 10, 12} -> 31
      [] m \in {4, 6, 9, 11} -> 30
      [] OTHER -> IF IsLeap(y) THEN 29 ELSE 28

\* days from 1970-01-01 to the civil date y-m-d (proleptic Gregorian)
DaysFromCivil(y, m, d) ==
    LET yy  == IF m <= 2 THEN y - 1 ELSE y
        era == yy \div 400
        yoe == yy - era * 400
        mp  == IF m > 2 THEN m - 3 ELSE m + 9
        doy == (153 * mp + 2) \div 5 + d - 1
        doe == yoe * 365 + yoe \div 4 - yoe \div 100 + doy
    IN  era * 146097 + doe - 719468

\* NaiveDate::parse_from_str(s, "%d.%m.%Y"): a date string is modelled by its
\* three numeric fields <<d, m, y>>; a string that is no such triple is <<>>
ValidDate(s) ==
    /\ Len(s) = 3
    /\ s[2] \in 1..12
    /\ s[1] \in 1..DaysInMonth(s[3], s[2])

\* parse_input_date(s).ok(): local midnight of the date as UTC unix seconds
parse_input_date(s) ==
    IF ValidDate(s)
    THEN Some(DaysFromCivil(s[3], s[2], s[1]) * 86400 - LocalOffset)
    ELSE None

-----------------------------------------------------------------------------
(* Inputs *)

Descriptions == {"x"}

\* --priority: absent, or an integer (values outside 1..5 are accepted)
PriorityArgs == {None, Some(6)}

\* --due: absent, a valid date, a string that does not parse
DueArgs == {None, Some(<<2, 9, 2025>>), Some(<<31, 2, 2025>>)}

\* what Utc::now().timestamp() returns, in seconds after the first invocation
\* (the wall clock: two invocations may fall in the same second)
Times == {0}

\* list: <<all, completed>>; --completed conflicts with --all
ListArgs == {<<FALSE, FALSE>>, <<TRUE, FALSE>>, <<FALSE, TRUE>>}

\* ids given on the command line: every id the store can hold, and one more
IdArgs == 1..(MaxId + 1)

\* the wider inputs of SpecOrder
OrderPriorityArgs == {None, Some(1), Some(5), Some(4)}
OrderDueArgs == DueArgs \cup {Some(<<1, 9, 2025>>)}
OrderTimes == {0, 1}
OrderIdArgs == 1..MaxQueue

\* the inputs of SpecDrain
DrainPriorityArgs == {None, Some(1), Some(5)}
DrainDueArgs == {None, Some(<<2, 9, 2025>>)}

\* the processes whose invocations overlap in SpecRace
Procs == {1, 2}

-----------------------------------------------------------------------------
(* db.rs: statements on the tasks table *)

Ids(store) == DOMAIN store

WithStatus(store, s) == {i \in Ids(store) : store[i].status = s}

MaxOf(S) == CHOOSE m \in S : \A x \in S : x <= m

\* INTEGER PRIMARY KEY without AUTOINCREMENT: an INSERT that gives no id gets
\* one more than the largest rowid currently in the table, 1 in an empty table
NextRowid(store) == IF Ids(store) = {} THEN 1 ELSE MaxOf(Ids(store)) + 1

\* mutant: the priority is clamped to 1..5
add_task_ClampsPriority(store, task, priority, due, created_at) ==
    LET due_at == IF due = None THEN None ELSE parse_input_date(due[1])
        id     == NextRowid(store)
        p      == IF priority = None THEN 3 ELSE priority[1]
        row    == [task       |-> task,
                   status     |-> Pending,
                   priority   |-> IF p > 5 THEN 5 ELSE IF p < 1 THEN 1 ELSE p,
                   created_at |-> created_at,
                   due_at     |-> due_at]
    IN  [i \in Ids(store) \cup {id} |-> IF i = id THEN row ELSE store[i]]

\* mutant: a due date that does not parse rejects the insert
add_task_RejectsBadDate(store, task, priority, due, created_at) ==
    LET due_at == IF due = None THEN None ELSE parse_input_date(due[1])
        id     == NextRowid(store)
        row    == [task       |-> task,
                   status     |-> Pending,
                   priority   |-> IF priority = None THEN 3 ELSE priority[1],
                   created_at |-> created_at,
                   due_at     |-> due_at]
    IN  IF due # None /\ due_at = None
        THEN store
        ELSE [i \in Ids(store) \cup {id} |-> IF i = id THEN row ELSE store[i]]

\* add_task: INSERT INTO tasks (task, priority, created_at, due_at); status
\* takes its DEFAULT 0
add_task(store, task, priority, due, created_at) ==
    LET due_at == IF due = None THEN None ELSE parse_input_date(due[1])
        id     == NextRowid(store)
        row    == [task       |-> task,
                   status     |-> Pending,
                   priority   |-> IF priority = None THEN 3 ELSE priority[1],
                   created_at |-> created_at,
                   due_at     |-> due_at]
    IN  [i \in Ids(store) \cup {id} |-> IF i = id THEN row ELSE store[i]]

\* mutant: the Ok(0) arm is missing, an update of no row counts as a success
update_task_status_ZeroRowsOk(store, id, status) ==
    IF id \in Ids(store)
    THEN [ok |-> TRUE, store |-> [store EXCEPT ![id].status = status]]
    ELSE [ok |-> TRUE, store |-> store]

\* mutant: the row is replaced (REPLACE INTO tasks (id, task, status,
\* created_at)), priority and due_at fall back to their defaults
update_task_status_ReplacesRow(store, id, status) ==
    IF id \in Ids(store)
    THEN [ok |-> TRUE,
          store |-> [store EXCEPT ![id] = [task       |-> store[id].task,
                                           status     |-> status,
                                           priority   |-> 3,
                                           created_at |-> store[id].created_at,
                                           due_at     |-> None]]]
    ELSE [ok |-> FALSE, store |-> store]

\* update_task_status: UPDATE tasks SET status = ?1 WHERE id = ?2;
\* Err when no row was updated
update_task_status(store, id, status) ==
    IF id \in Ids(store)
    THEN [ok |-> TRUE,  store |-> [store EXCEPT ![id].status = status]]
    ELSE [ok |-> FALSE, store |-> store]

\* mutant: only a task that is InProgress is completed
mark_task_done_OnlyActive(store, id) ==
    IF id \in Ids(store) /\ store[id].status # InProgress
    THEN [store |-> store, out |-> <<"done">>]
    ELSE LET r == update_task_status(store, id, Completed)
         IN  [store |-> r.store, out |-> IF r.ok THEN <<"done">> ELSE <<"not_found">>]

\* mark_task_done
mark_task_done(store, id) ==
    LET r == update_task_status(store, id, Completed)
    IN  [store |-> r.store, out |-> IF r.ok THEN <<"done">> ELSE <<"not_found">>]

\* mutant: the status written is the one of mark_task_done
mark_task_pending_WritesCompleted(store, id) ==
    LET r == update_task_status(store, id, Completed)
    IN  [store |-> r.store, out |-> IF r.ok THEN <<"paused">> ELSE <<"not_found">>]

\* mark_task_pending
mark_task_pending(store, id) ==
    LET r == update_task_status(store, id, Pending)
    IN  [store |-> r.store, out |-> IF r.ok THEN <<"paused">> ELSE <<"not_found">>]

\* mark_task_cancelled
mark_task_cancelled(store, id) ==
    LET r == update_task_status(store, id, Cancelled)
    IN  [store |-> r.store, out |-> IF r.ok THEN <<"cancelled">> ELSE <<"not_found">>]

\* mutant: ORDER BY priority DESC, due_at, created_at (NULLs sort first)
SortsBefore_NullsFirst(a, b) ==
    \/ a.priority > b.priority
    \/ /\ a.priority = b.priority
       /\ \/ a.due_at = None /\ b.due_at # None
          \/ a.due_at # None /\ b.due_at # None /\ a.due_at[1] < b.due_at[1]
          \/ /\ a.due_at = b.due_at
             /\ a.created_at < b.created_at

\* mutant: ORDER BY priority, due_at NULLS LAST, created_at (lowest first)
SortsBefore_LowestFirst(a, b) ==
    \/ a.priority < b.priority
    \/ /\ a.priority = b.priority
       /\ \/ a.due_at # None /\ b.due_at = None
          \/ a.due_at # None /\ b.due_at # None /\ a.due_at[1] < b.due_at[1]
          \/ /\ a.due_at = b.due_at
             /\ a.created_at < b.created_at

\* ORDER BY priority DESC, due_at NULLS LAST, created_at: row a sorts
\* strictly before row b
SortsBefore(a, b) ==
    \/ a.priority > b.priority
    \/ /\ a.priority = b.priority
       /\ \/ a.due_at # None /\ b.due_at = None
          \/ a.due_at # None /\ b.due_at # None /\ a.due_at[1] < b.due_at[1]
          \/ /\ a.due_at = b.due_at
             /\ a.created_at < b.created_at

\* mutant: the WHERE status = Pending clause is missing
NextPending_AnyStatus(store) ==
    {p \in Ids(store) : \A q \in Ids(store) : ~SortsBefore(store[q], store[p])}

\* SELECT id FROM tasks WHERE status = Pending ORDER BY ... LIMIT 1: the ids
\* the query may return; the order of rows that tie on every ORDER BY key is
\* not defined by the statement
NextPending(store) ==
    {p \in WithStatus(store, Pending) :
        \A q \in WithStatus(store, Pending) : ~SortsBefore(store[q], store[p])}

\* mutant: the UPDATE has no WHERE id clause, every row is promoted
PromoteTask_NoWhere(store, id) ==
    [store |-> [i \in Ids(store) |-> [store[i] EXCEPT !.status = InProgress]],
     out   |-> IF id \in Ids(store) THEN <<"promoted">> ELSE <<"not_found">>]

\* select_next_task, from the id it promotes: an explicit id is promoted as
\* is; an update of no row prints "No tasks to set to next."
PromoteTask(store, id) ==
    LET r == update_task_status(store, id, InProgress)
    IN  [store |-> r.store, out |-> IF r.ok THEN <<"promoted">> ELSE <<"not_found">>]

\* mutant: the promotion looks for an active task again before it writes
select_next_task_RechecksActive(store, id) ==
    IF WithStatus(store, InProgress) # {}
    THEN {[store |-> store, out |-> <<"already_active">>]}
    ELSE IF id # None THEN {PromoteTask(store, id[1])}
    ELSE IF NextPending(store) = {} THEN {[store |-> store, out |-> <<"none_waiting">>]}
    ELSE {PromoteTask(store, p) : p \in NextPending(store)}

\* select_next_task: the results the call may have
select_next_task(store, id) ==
    IF id # None THEN {PromoteTask(store, id[1])}
    ELSE IF NextPending(store) = {} THEN {[store |-> store, out |-> <<"none_waiting">>]}
    ELSE {PromoteTask(store, p) : p \in NextPending(store)}

\* get_current_active_task: SELECT * FROM tasks WHERE status = InProgress
\* LIMIT 1: the ids of the rows the query may return, None for no rows
get_current_active_task(store) ==
    IF WithStatus(store, InProgress) = {} THEN {None}
    ELSE {Some(i) : i \in WithStatus(store, InProgress)}

\* mutant: DELETE FROM tasks WHERE status >= Completed
collect_garbage_AllTerminal(store) ==
    LET gone == WithStatus(store, Cancelled) \cup WithStatus(store, Completed)
    IN  [store |-> [i \in Ids(store) \ gone |-> store[i]],
         out   |-> <<"deleted", Cardinality(gone)>>]

\* collect_garbage: DELETE FROM tasks WHERE status = Cancelled
collect_garbage(store) ==
    LET keep == Ids(store) \ WithStatus(store, Cancelled)
    IN  [store |-> [i \in keep |-> store[i]],
         out   |-> <<"deleted", Cardinality(WithStatus(store, Cancelled))>>]

\* mutant: ORDER BY priority DESC, status DESC
ListedBefore_PriorityFirst(a, b) ==
    \/ a.priority > b.priority
    \/ a.priority = b.priority /\ a.status > b.status

\* ORDER BY status DESC, priority DESC of the default list
ListedBefore(a, b) ==
    \/ a.status > b.status
    \/ a.status = b.status /\ a.priority > b.priority

\* select_to_tasks: the orders in which a SELECT may return the rows S; with
\* the ORDER BY of the default list no row comes after a row it must precede,
\* without ORDER BY every arrangement is possible
Arrangements(store, S, ordered) ==
    {s \in [1..Cardinality(S) -> S] :
        /\ \A i, j \in 1..Cardinality(S) : i # j => s[i] # s[j]
        /\ ordered =>
             \A i, j \in 1..Cardinality(S) :
                 i < j => ~ListedBefore(store[s[j]], store[s[i]])}

\* list_tasks: the sequences of ids the chosen SELECT may return
list_tasks(store, all, completed) ==
    IF all THEN Arrangements(store, Ids(store), FALSE)
    ELSE IF completed THEN Arrangements(store, WithStatus(store, Completed), FALSE)
    ELSE Arrangements(store, WithStatus(store, Pending) \cup WithStatus(store, InProgress),
                      TRUE)

-----------------------------------------------------------------------------
(* cli.rs: run, one action per command *)

\* args holds the arguments of add, <<task, priority, due, created_at>>
Invocation(cmd, id, flag, active, out, listed) ==
    [cmd |-> cmd, id |-> id, flag |-> flag, active |-> active, out |-> out,
     listed |-> listed, args |-> <<>>]

Init ==
    /\ tasks = <<>>
    /\ assigned = {}
    /\ prev = <<>>
    /\ last = Invocation("none", None, FALSE, None, <<>>, <<>>)
    /\ inflight = [p \in Procs |-> None]
    /\ drain = [on |-> FALSE, initial |-> {}, order |-> <<>>]

\* td add <task> [--priority p] [--due s], run at time created_at
Add(task, priority, due, created_at) ==
    /\ \E active \in get_current_active_task(tasks) :
        /\ tasks' = add_task(tasks, task, priority, due, created_at)
        /\ assigned' = assigned \cup {NextRowid(tasks)}
        /\ prev' = tasks
        /\ last' = [Invocation("add", None, FALSE, active, <<"added">>, <<>>)
                       EXCEPT !.args = <<task, priority, due, created_at>>]
    /\ UNCHANGED aux

\* td list [--all] [--completed]; flag is <<all, completed>>
List(all, completed) ==
    /\ \E active \in get_current_active_task(tasks) :
       \E rows \in list_tasks(tasks, all, completed) :
        /\ prev' = tasks
        /\ last' = Invocation("list", None, <<all, completed>>, active, <<"listed">>, rows)
    /\ UNCHANGED <<tasks, assigned, aux>>

\* mutant: next does not look at the startup read
NextCommand_Unguarded(store, id, active) == select_next_task(store, id)

\* Commands::Next: the results the command may have, given the startup read
NextCommand(store, id, active) ==
    IF active = None
    THEN select_next_task(store, id)
    ELSE {[store |-> store, out |-> <<"already_active">>]}

\* td next [--id N]
Next_(id) ==
    /\ \E active \in get_current_active_task(tasks) :
       \E r \in NextCommand(tasks, id, active) :
        /\ tasks' = r.store
        /\ last' = Invocation("next", id, FALSE, active, r.out, <<>>)
    /\ prev' = tasks
    /\ UNCHANGED <<assigned, aux>>

\* mutant: done --next chains whether or not a task was active
DoneChain_IgnoresActive(store, next, active) ==
    IF next
    THEN select_next_task(store, None)
    ELSE {[store |-> store, out |-> <<>>]}

\* the results of the chained select_next_task of td done --next
DoneChain(store, next, active) ==
    IF next /\ active = None
    THEN select_next_task(store, None)
    ELSE {[store |-> store, out |-> <<>>]}

\* Commands::Done on the tasks table
DoneStep(id, next) ==
    /\ \E active \in get_current_active_task(tasks) :
       LET d == mark_task_done(tasks, id)
       IN  \E r \in DoneChain(d.store, next, active) :
            /\ tasks' = r.store
            /\ last' = Invocation("done", Some(id), next, active, d.out \o r.out, <<>>)
    /\ prev' = tasks
    /\ UNCHANGED <<assigned, inflight>>

\* td done <id> [--next]
Done(id, next) == DoneStep(id, next) /\ UNCHANGED drain

\* td show
Show ==
    /\ \E active \in get_current_active_task(tasks) :
        last' = Invocation("show", None, FALSE, active,
                           IF active = None THEN <<"no_active">> ELSE <<"shown">>, <<>>)
    /\ prev' = tasks
    /\ UNCHANGED <<tasks, assigned, aux>>

\* td pause
Pause ==
    /\ \E active \in get_current_active_task(tasks) :
       LET r == IF active = None
                THEN [store |-> tasks, out |-> <<"no_active">>]
                ELSE mark_task_pending(tasks, active[1])
       IN  /\ tasks' = r.store
           /\ last' = Invocation("pause", None, FALSE, active, r.out, <<>>)
    /\ prev' = tasks
    /\ UNCHANGED <<assigned, aux>>

\* mutant: the delete step is skipped when the cancel step found no task
Cancel_StopsWhenNotFound(id, delete) ==
    /\ \E active \in get_current_active_task(tasks) :
       LET c == mark_task_cancelled(tasks, id)
           g == IF delete /\ c.out # <<"not_found">>
                THEN collect_garbage(c.store)
                ELSE [store |-> c.store, out |-> <<>>]
       IN  /\ tasks' = g.store
           /\ last' = Invocation("cancel", Some(id), delete, active, c.out \o g.out, <<>>)
    /\ prev' = tasks
    /\ UNCHANGED <<assigned, aux>>

\* td cancel <id> [--delete]
Cancel(id, delete) ==
    /\ \E active \in get_current_active_task(tasks) :
       LET c == mark_task_cancelled(tasks, id)
           g == IF delete THEN collect_garbage(c.store)
                          ELSE [store |-> c.store, out |-> <<>>]
       IN  /\ tasks' = g.store
           /\ last' = Invocation("cancel", Some(id), delete, active, c.out \o g.out, <<>>)
    /\ prev' = tasks
    /\ UNCHANGED <<assigned, aux>>

\* td gc
Gc ==
    /\ \E active \in get_current_active_task(tasks) :
       LET g == collect_garbage(tasks)
       IN  /\ tasks' = g.store
           /\ last' = Invocation("gc", None, FALSE, active, g.out, <<>>)
    /\ prev' = tasks
    /\ UNCHANGED <<assigned, aux>>

Next ==
    \/ \E t \in Descriptions, p \in PriorityArgs, d \in DueArgs, c \in Times :
          NextRowid(tasks) <= MaxId /\ Add(t, p, d, c)
    \/ \E f \in ListArgs : List(f[1], f[2])
    \/ \E id \in {None} \cup {Some(i) : i \in IdArgs} : Next_(id)
    \/ \E id \in IdArgs, n \in BOOLEAN : Done(id, n)
    \/ Show
    \/ Pause
    \/ \E id \in IdArgs, d \in BOOLEAN : Cancel(id, d)
    \/ Gc

Spec == Init /\ [][Next]_vars

\* add, next and done alone, on wider inputs: the order of promotion
NextOrder ==
    \/ \E t \in Descriptions, p \in OrderPriorityArgs, d \in OrderDueArgs, c \in OrderTimes :
          NextRowid(tasks) <= MaxQueue /\ Add(t, p, d, c)
    \/ Next_(None)
    \/ \E id \in OrderIdArgs : Done(id, FALSE)

SpecOrder == Init /\ [][NextOrder]_vars

-----------------------------------------------------------------------------
(* Overlapping invocations: the startup read of run (cli.rs:82) and the
   statements of its command are separate steps, each atomic in the store;
   nothing else orders two processes *)

\* process p starts td next [--id N]: init_db and the startup read
StartNext(p, id) ==
    /\ inflight[p] = None
    /\ \E active \in get_current_active_task(tasks) :
        inflight' = [inflight EXCEPT ![p] = Some([id |-> id, active |-> active])]
    /\ UNCHANGED <<tasks, assigned, prev, last, drain>>

\* process p runs Commands::Next on what its startup read returned
FinishNext(p) ==
    /\ inflight[p] # None
    /\ \E r \in NextCommand(tasks, inflight[p][1].id, inflight[p][1].active) :
        /\ tasks' = r.store
        /\ last' = Invocation("next", inflight[p][1].id, FALSE, inflight[p][1].active,
                              r.out, <<>>)
    /\ prev' = tasks
    /\ inflight' = [inflight EXCEPT ![p] = None]
    /\ UNCHANGED <<assigned, drain>>

NextRace ==
    \/ \E t \in Descriptions, p \in PriorityArgs, d \in DueArgs, c \in Times :
          NextRowid(tasks) <= MaxId /\ Add(t, p, d, c)
    \/ \E p \in Procs, id \in {None} \cup {Some(i) : i \in IdArgs} : StartNext(p, id)
    \/ \E p \in Procs : FinishNext(p)

SpecRace == Init /\ [][NextRace]_vars

-----------------------------------------------------------------------------
(* The loop 'td next, then td done on the task it promoted', run on a store
   that add and cancel have filled *)

\* the loop begins: no add, pause or cancel from here on
BeginDrain ==
    /\ ~drain.on
    /\ WithStatus(tasks, InProgress) = {}
    /\ drain' = [on |-> TRUE, initial |-> WithStatus(tasks, Pending), order |-> <<>>]
    /\ UNCHANGED <<tasks, assigned, prev, last, inflight>>

\* td next, when the task promoted before has been completed
DrainNext ==
    /\ drain.on
    /\ WithStatus(tasks, InProgress) = {}
    /\ Next_(None)

\* td done <id> on the task the last next promoted
DrainDone ==
    /\ drain.on
    /\ \E id \in WithStatus(tasks, InProgress) :
        /\ DoneStep(id, FALSE)
        /\ drain' = [drain EXCEPT !.order = Append(@, id)]

NextDrain ==
    \/ \E t \in Descriptions, p \in DrainPriorityArgs, d \in DrainDueArgs, c \in Times :
          ~drain.on /\ NextRowid(tasks) <= MaxQueue /\ Add(t, p, d, c)
    \/ \E id \in OrderIdArgs : ~drain.on /\ Cancel(id, FALSE)
    \/ BeginDrain
    \/ DrainNext
    \/ DrainDone

\* the loop is repeated: a next or a done that is due is eventually run
SpecDrain ==
    Init /\ [][NextDrain]_vars /\ WF_vars(DrainNext) /\ WF_vars(DrainDone)

-----------------------------------------------------------------------------
(* Properties *)

Terminal == {Completed, Cancelled}

\* the last invocation was td next without --id
LastNextAuto == last.cmd = "next" /\ last.id = None

\* C1: after any sequence of invocations from an empty store, at most one
\* task has status InProgress.
C1_AtMostOneInProgress == Cardinality(WithStatus(tasks, InProgress)) <= 1

\* C1 witness: done --next ran while no task was active, on an id that matches
\* no task, and promoted one of two Pending tasks; the other is still Pending.
C1_Witness ==
    /\ last.cmd = "done" /\ last.flag
    /\ last.out = <<"not_found", "promoted">>
    /\ Cardinality(WithStatus(prev, Pending)) = 2
    /\ Cardinality(WithStatus(tasks, InProgress)) = 1
    /\ Cardinality(WithStatus(tasks, Pending)) = 1

\* C2: the id given to a new task is greater than every id assigned earlier,
\* the ids of tasks gc has deleted included; no id is assigned twice.
C2_IdNeverReused ==
    [][last'.cmd = "add" =>
         \A i \in Ids(tasks') \ Ids(tasks) : \A a \in assigned : a < i]_vars

\* C3: once a task is Completed or Cancelled, no invocation changes its
\* status; the only later change is the deletion of a Cancelled task by gc
\* (or by the delete step of cancel --delete).
C3_TerminalStatuses ==
    \A i \in Ids(prev) :
        prev[i].status \in Terminal =>
            IF i \in Ids(tasks)
            THEN tasks[i].status = prev[i].status
            ELSE /\ prev[i].status = Cancelled
                 /\ last.cmd \in {"gc", "cancel"}

\* row a has an earlier due date than row b; a row without a due date ranks
\* after every row with one
EarlierDue(a, b) ==
    /\ a.due_at # None
    /\ b.due_at = None \/ a.due_at[1] < b.due_at[1]

\* C4: with no task InProgress and a Pending task, next without --id
\* promotes a Pending task p: no Pending task has a higher priority; of the
\* Pending tasks of p's priority none has an earlier due date; of those with
\* p's due date none has an earlier created_at.
C4_PromotesBestPending ==
    (LastNextAuto /\ WithStatus(prev, InProgress) = {} /\ WithStatus(prev, Pending) # {}) =>
        \E p \in WithStatus(prev, Pending) :
            /\ tasks = [prev EXCEPT ![p].status = InProgress]
            /\ \A q \in WithStatus(prev, Pending) :
                /\ prev[q].priority <= prev[p].priority
                /\ prev[q].priority = prev[p].priority =>
                      /\ ~EarlierDue(prev[q], prev[p])
                      /\ prev[q].due_at = prev[p].due_at =>
                            prev[q].created_at >= prev[p].created_at

\* C4 witness: next promoted, of two Pending tasks of one priority that both
\* have a due date, the one due earlier although it was created later; the
\* other is still Pending.
C4_Witness ==
    /\ LastNextAuto /\ last.out = <<"promoted">>
    /\ \E p, q \in WithStatus(prev, Pending) :
        /\ tasks[p].status = InProgress /\ tasks[q].status = Pending
        /\ prev[p].priority = prev[q].priority
        /\ EarlierDue(prev[p], prev[q]) /\ prev[q].due_at # None
        /\ prev[p].created_at > prev[q].created_at

\* the store after the completion step of the last done invocation
AfterCompletion == mark_task_done(prev, last.id[1]).store

\* C5: done <id> --next performs the chained promotion exactly when no task
\* is InProgress after the completion step; so if then a task is Pending,
\* the invocation ends with the next Pending task InProgress.
C5_ChainsWhenNoneActiveAfterCompletion ==
    (last.cmd = "done" /\ last.flag) =>
        /\ Len(last.out) = 2 <=> WithStatus(AfterCompletion, InProgress) = {}
        /\ (WithStatus(AfterCompletion, InProgress) = {}
               /\ WithStatus(AfterCompletion, Pending) # {}) =>
              \E p \in NextPending(AfterCompletion) :
                  tasks = [AfterCompletion EXCEPT ![p].status = InProgress]

\* C6: next, with or without --id, issued while a task is InProgress is
\* refused: every task in the store is unchanged.
C6_NextRefusedWhileActive ==
    (last.cmd = "next" /\ WithStatus(prev, InProgress) # {}) =>
        /\ tasks = prev
        /\ last.out = <<"already_active">>

\* C6 witness: next --id named a Pending task while another was InProgress.
C6_Witness ==
    /\ last.cmd = "next" /\ last.id # None
    /\ last.id[1] \in WithStatus(prev, Pending)
    /\ WithStatus(prev, InProgress) # {}
    /\ last.out = <<"already_active">>

\* C7: the task next without --id promotes is determined by the store: the
\* invocation has one possible result, also when Pending tasks tie on
\* priority, due_at and created_at.
C7_SelectionDetermined ==
    (LastNextAuto /\ last.active = None) =>
        Cardinality(select_next_task(prev, None)) = 1

\* C8: done <id> without --next on an id in the store sets that task to
\* Completed whatever its status was, and changes no other task.
C8_DoneCompletesAnyStatus ==
    (last.cmd = "done" /\ ~last.flag /\ last.id[1] \in Ids(prev)) =>
        /\ tasks = [prev EXCEPT ![last.id[1]].status = Completed]
        /\ last.out = <<"done">>

\* C8 witness: done completed a Cancelled task with another task in the store.
C8_Witness ==
    /\ last.cmd = "done" /\ ~last.flag
    /\ last.id[1] \in WithStatus(prev, Cancelled)
    /\ tasks[last.id[1]].status = Completed
    /\ Cardinality(Ids(prev)) = 2

\* C9: done, cancel and next --id (without chaining flag) on an id that
\* matches no task report an error and leave the store unchanged.
C9_NotFoundChangesNothing ==
    (/\ last.cmd \in {"done", "cancel", "next"}
     /\ last.id # None
     /\ last.flag = FALSE
     /\ last.id[1] \notin Ids(prev)) =>
        /\ tasks = prev
        /\ last.out = IF last.cmd = "next" /\ last.active # None
                      THEN <<"already_active">>
                      ELSE <<"not_found">>

\* C9 witness: cancel named an id that is not in a store that holds a task.
C9_Witness ==
    /\ last.cmd = "cancel" /\ ~last.flag
    /\ last.id[1] \notin Ids(prev)
    /\ Ids(prev) # {}
    /\ last.out = <<"not_found">>

\* C10: next without --id on a store with no Pending task changes nothing.
C10_NoPendingNoMutation ==
    (LastNextAuto /\ WithStatus(prev, Pending) = {}) =>
        /\ tasks = prev
        /\ last.out = IF last.active = None
                      THEN <<"none_waiting">>
                      ELSE <<"already_active">>

\* C10 witness: next ran on a store holding a Completed and a Cancelled task
\* and nothing else.
C10_Witness ==
    /\ LastNextAuto /\ last.out = <<"none_waiting">>
    /\ WithStatus(prev, Completed) # {} /\ WithStatus(prev, Cancelled) # {}
    /\ Ids(prev) = WithStatus(prev, Completed) \cup WithStatus(prev, Cancelled)

\* the ids whose row differs between the start and the end of the last
\* invocation, among the rows present at both
Changed == {i \in Ids(prev) \cap Ids(tasks) : tasks[i] # prev[i]}

\* C11: a successful next without --id changes exactly one task: the selected
\* task goes from Pending to InProgress, every other task is unchanged; with
\* exactly one Pending task, that task becomes InProgress.
C11_NextChangesExactlyOne ==
    (LastNextAuto /\ WithStatus(prev, InProgress) = {} /\ WithStatus(prev, Pending) # {}) =>
        /\ Ids(tasks) = Ids(prev)
        /\ Cardinality(Changed) = 1
        /\ \A p \in Changed :
            /\ prev[p].status = Pending
            /\ tasks[p] = [prev[p] EXCEPT !.status = InProgress]
        /\ Cardinality(WithStatus(prev, Pending)) = 1 => Changed = WithStatus(prev, Pending)

\* C11 witness: next ran on a store with exactly one Pending task and a
\* Completed one; the Pending task is InProgress, the other still Completed.
C11_Witness ==
    /\ LastNextAuto /\ last.out = <<"promoted">>
    /\ Cardinality(WithStatus(prev, Pending)) = 1
    /\ Cardinality(WithStatus(prev, Completed)) = 1
    /\ WithStatus(tasks, InProgress) = WithStatus(prev, Pending)
    /\ WithStatus(tasks, Completed) = WithStatus(prev, Completed)

\* the rows the last invocation removed
Removed == Ids(prev) \ Ids(tasks)

\* the last invocation ran the DELETE: gc, or cancel --delete
LastDeletes == last.cmd = "gc" \/ (last.cmd = "cancel" /\ last.flag)

\* the rows that are Cancelled when the DELETE of the last invocation runs:
\* those Cancelled at its start and, for cancel --delete, the row of its id
CancelledAtDelete ==
    WithStatus(prev, Cancelled) \cup
        (IF last.cmd = "cancel" THEN {last.id[1]} \cap Ids(prev) ELSE {})

\* C12: gc and the delete step of cancel --delete remove every Cancelled task
\* and no other, and report the number removed; no other command removes a
\* task; gc on a store with one Cancelled task reduces the count by 1.
C12_GcRemovesExactlyCancelled ==
    /\ LastDeletes =>
        /\ Removed = CancelledAtDelete
        /\ WithStatus(tasks, Cancelled) = {}
        /\ \A i \in Ids(tasks) : i \in Ids(prev) /\ tasks[i] = prev[i]
        /\ last.out[Len(last.out) - 1] = "deleted"
        /\ last.out[Len(last.out)] = Cardinality(Removed)
    /\ ~LastDeletes => Removed = {}
    /\ (last.cmd = "gc" /\ Cardinality(WithStatus(prev, Cancelled)) = 1) =>
          Cardinality(Ids(tasks)) = Cardinality(Ids(prev)) - 1

\* C12 witness: gc ran on a store with one Cancelled and one Completed task,
\* removed the Cancelled one, reported 1 and left the Completed one.
C12_Witness ==
    /\ last.cmd = "gc" /\ last.out = <<"deleted", 1>>
    /\ Cardinality(WithStatus(prev, Cancelled)) = 1
    /\ Cardinality(WithStatus(prev, Completed)) = 1
    /\ Ids(tasks) = WithStatus(prev, Completed)

\* the rows the last invocation created
Created == Ids(tasks) \ Ids(prev)

\* C13: every add increases the number of tasks by exactly 1; the new task is
\* Pending and has the given priority, or 3 when none is given (a priority
\* outside 1..5 is kept as is); every task already in the store is unchanged.
C13_AddCreatesOnePending ==
    last.cmd = "add" =>
        /\ Cardinality(Ids(tasks)) = Cardinality(Ids(prev)) + 1
        /\ Cardinality(Created) = 1
        /\ \A i \in Ids(prev) : i \in Ids(tasks) /\ tasks[i] = prev[i]
        /\ \A n \in Created :
            /\ tasks[n].status = Pending
            /\ tasks[n].priority = IF last.args[2] = None THEN 3 ELSE last.args[2][1]

\* C13 witness: add --priority 6 ran on a store that held a task.
C13_Witness ==
    /\ last.cmd = "add" /\ last.args[2] = Some(6)
    /\ Ids(prev) # {}
    /\ \E n \in Created : tasks[n].priority = 6

\* the --due string of the last add did not parse
LastAddBadDate ==
    /\ last.cmd = "add"
    /\ last.args[3] # None
    /\ parse_input_date(last.args[3][1]) = None

\* C14: add with a due string that fails to parse still creates the task:
\* the count grows by 1, the task is Pending with the description and the
\* priority given and has no due date.
C14_BadDateStillAdds ==
    LastAddBadDate =>
        /\ Cardinality(Ids(tasks)) = Cardinality(Ids(prev)) + 1
        /\ \E n \in Created :
            /\ tasks[n].status = Pending
            /\ tasks[n].task = last.args[1]
            /\ tasks[n].priority = IF last.args[2] = None THEN 3 ELSE last.args[2][1]
            /\ tasks[n].due_at = None

\* C14 witness: add --due 31.2.2025 created a task without a due date.
C14_Witness ==
    /\ last.cmd = "add" /\ last.args[3] = Some(<<31, 2, 2025>>)
    /\ \E n \in Created : tasks[n].due_at = None /\ tasks[n].status = Pending

\* C15: pause acts only on the active task: with a task InProgress it sets
\* exactly that task to Pending and leaves no task InProgress; with none it
\* leaves the store unchanged; a task that is not InProgress is never changed.
C15_PauseOnlyActive ==
    last.cmd = "pause" =>
        /\ Ids(tasks) = Ids(prev)
        /\ \A i \in Ids(prev) :
            tasks[i] = IF prev[i].status = InProgress
                       THEN [prev[i] EXCEPT !.status = Pending]
                       ELSE prev[i]
        /\ WithStatus(tasks, InProgress) = {}
        /\ WithStatus(prev, InProgress) = {} => tasks = prev /\ last.out = <<"no_active">>
        /\ WithStatus(prev, InProgress) # {} => Changed = WithStatus(prev, InProgress)

\* C15 witness: pause ran with one task InProgress and another Pending; both
\* are Pending afterwards.
C15_Witness ==
    /\ last.cmd = "pause" /\ last.out = <<"paused">>
    /\ Cardinality(WithStatus(prev, InProgress)) = 1
    /\ Cardinality(WithStatus(prev, Pending)) = 1
    /\ Cardinality(WithStatus(tasks, Pending)) = 2

\* the ids the last list printed
Listed == {last.listed[k] : k \in 1..Len(last.listed)}

\* C16: list with no flag returns exactly the Pending and InProgress tasks,
\* every InProgress task before every Pending one and, within a status, in
\* non-increasing priority; list --completed returns exactly the Completed
\* tasks; list --all returns every task; list never changes the store.
C16_ListScopesAndOrder ==
    last.cmd = "list" =>
        /\ tasks = prev
        /\ Len(last.listed) = Cardinality(Listed)
        /\ last.flag = <<TRUE, FALSE>> => Listed = Ids(prev)
        /\ last.flag = <<FALSE, TRUE>> => Listed = WithStatus(prev, Completed)
        /\ last.flag = <<FALSE, FALSE>> =>
            /\ Listed = WithStatus(prev, Pending) \cup WithStatus(prev, InProgress)
            /\ \A j, k \in 1..Len(last.listed) :
                LET a == prev[last.listed[j]]
                    b == prev[last.listed[k]]
                IN  j < k =>
                      /\ ~(a.status = Pending /\ b.status = InProgress)
                      /\ a.status = b.status => a.priority >= b.priority

\* C16 witness: the default list printed an InProgress task of priority 3
\* before a Pending task of priority 6.
C16_Witness ==
    /\ last.cmd = "list" /\ last.flag = <<FALSE, FALSE>>
    /\ Len(last.listed) = 2
    /\ prev[last.listed[1]].status = InProgress /\ prev[last.listed[1]].priority = 3
    /\ prev[last.listed[2]].status = Pending /\ prev[last.listed[2]].priority = 6

\* the ids the status writes of the last invocation name: the id argument of
\* done, cancel and next --id, the task the startup read found for pause
Targets ==
    CASE last.cmd \in {"done", "cancel"} -> {last.id[1]}
      [] last.cmd = "next" /\ last.id # None -> {last.id[1]}
      [] last.cmd = "pause" /\ last.active # None -> {last.active[1]}
      [] OTHER -> {}

\* the last invocation ran a select_next_task that chose the task itself
LastAutoSelects == LastNextAuto \/ (last.cmd = "done" /\ last.flag)

\* C18: a task is mutated only through its status: description, priority,
\* created_at and due_at of every task in the store stay as set at creation,
\* and each status write changes at most the one task it targets.
C18_OnlyStatusChanges ==
    /\ \A i \in Ids(prev) \cap Ids(tasks) :
        tasks[i] = [prev[i] EXCEPT !.status = tasks[i].status]
    /\ last.cmd = "add" =>
        \A n \in Created :
            /\ tasks[n].task = last.args[1]
            /\ tasks[n].created_at = last.args[4]
            /\ tasks[n].due_at =
                  IF last.args[3] = None THEN None ELSE parse_input_date(last.args[3][1])
    /\ Cardinality(Changed \ Targets) <= IF LastAutoSelects THEN 1 ELSE 0
    /\ \A i \in Changed \ Targets : prev[i].status = Pending /\ tasks[i].status = InProgress

\* C18 witness: done completed a task of priority 6 with a due date; both
\* are as before, and the other task in the store is unchanged.
C18_Witness ==
    /\ last.cmd = "done" /\ ~last.flag /\ last.out = <<"done">>
    /\ Changed = {last.id[1]}
    /\ tasks[last.id[1]].priority = 6
    /\ tasks[last.id[1]].due_at # None
    /\ Cardinality(Ids(tasks)) = 2

\* the last invocation was a two-step command whose id matches no task
LastChainedNotFound(cmd) ==
    /\ last.cmd = cmd /\ last.flag
    /\ last.id[1] \notin Ids(prev)

\* C19: the chained step runs although the first step found no task: cancel
\* <id> --delete with an unknown id deletes every Cancelled task; done <id>
\* --next with an unknown id promotes the next Pending task when no task was
\* InProgress at the start.
C19_ChainRunsAfterNotFound ==
    /\ LastChainedNotFound("cancel") =>
        /\ Removed = WithStatus(prev, Cancelled)
        /\ \A i \in Ids(tasks) : tasks[i] = prev[i]
        /\ last.out = <<"not_found", "deleted", Cardinality(WithStatus(prev, Cancelled))>>
    /\ (LastChainedNotFound("done") /\ WithStatus(prev, InProgress) = {}) =>
        IF WithStatus(prev, Pending) = {}
        THEN tasks = prev /\ last.out = <<"not_found", "none_waiting">>
        ELSE /\ last.out = <<"not_found", "promoted">>
             /\ \E p \in WithStatus(prev, Pending) :
                    tasks = [prev EXCEPT ![p].status = InProgress]

\* C19 witness: cancel --delete with an unknown id ran on a store with one
\* Cancelled and one Pending task and deleted the Cancelled one.
C19_Witness ==
    /\ LastChainedNotFound("cancel")
    /\ Cardinality(WithStatus(prev, Cancelled)) = 1
    /\ Cardinality(WithStatus(prev, Pending)) = 1
    /\ Ids(tasks) = WithStatus(prev, Pending)
    /\ last.out = <<"not_found", "deleted", 1>>

\* C17: when invocations overlap, the write of a next whose startup read
\* found no active task is not rejected although a task is InProgress by
\* then: it promotes its task, so two tasks are InProgress.
C17_StaleReadPromotes ==
    (last.cmd = "next" /\ last.active = None /\ WithStatus(prev, InProgress) # {}) =>
        /\ (last.id # None /\ last.id[1] \in Ids(prev)) =>
              /\ tasks = [prev EXCEPT ![last.id[1]].status = InProgress]
              /\ last.out = <<"promoted">>
        /\ (last.id = None /\ WithStatus(prev, Pending) # {}) =>
              /\ \E p \in WithStatus(prev, Pending) :
                     tasks = [prev EXCEPT ![p].status = InProgress]
              /\ last.out = <<"promoted">>
              /\ Cardinality(WithStatus(tasks, InProgress)) >= 2

\* C17 witness: two next invocations both read 'no active task' before either
\* wrote; after the second write two tasks are InProgress.
C17_Witness ==
    /\ last.cmd = "next" /\ last.id = None /\ last.active = None
    /\ last.out = <<"promoted">>
    /\ Cardinality(WithStatus(prev, InProgress)) = 1
    /\ Cardinality(WithStatus(tasks, InProgress)) = 2
    /\ \A p \in Procs : inflight[p] = None

\* the ids the loop has completed so far
Drained == {drain.order[k] : k \in 1..Len(drain.order)}

\* C20: from a store with no InProgress task, with no add, pause or cancel in
\* between, repeating 'next, then done on the task promoted' eventually
\* leaves no Pending and no InProgress task, having completed every task
\* that was Pending at the start exactly once, in non-increasing priority.
C20_DrainCompletesAll ==
    /\ [](drain.on =>
            /\ Len(drain.order) = Cardinality(Drained)
            /\ Drained \subseteq drain.initial
            /\ \A i \in Drained : tasks[i].status = Completed
            /\ \A j, k \in 1..Len(drain.order) :
                 j < k => tasks[drain.order[j]].priority >= tasks[drain.order[k]].priority)
    /\ (drain.on ~>
            /\ WithStatus(tasks, Pending) = {}
            /\ WithStatus(tasks, InProgress) = {}
            /\ Drained = drain.initial)

\* C20 witness: the loop has completed two tasks, the one of priority 5
\* before the one of priority 1, and no task is Pending or InProgress.
C20_Witness ==
    /\ drain.on /\ Len(drain.order) = 2
    /\ tasks[drain.order[1]].priority = 5
    /\ tasks[drain.order[2]].priority = 1
    /\ WithStatus(tasks, Pending) = {} /\ WithStatus(tasks, InProgress) = {}
    /\ Drained = drain.initial

=============================================================================
